---- MODULE Spec2Model ----
(***************************************************************************)
(* Margaret (kpandey008/Margaret), ensemble-ti.                            *)
(*                                                                         *)
(* Two functions are modelled, each as a sequential state machine whose    *)
(* program counter walks the statements of the function:                   *)
(*   - train_metric_learner (ensemble-ti/train_metric.py), with the        *)
(*     NpDataset wrapper it iterates (margaret/datasets/np.py);            *)
(*   - plot_gene_expression (ensemble-ti/utils/plot.py).                   *)
(* determine_cell_clusters, MetricDataset, MetricEncoder and MetricTrainer *)
(* are imported by train_metric.py from modules whose code is not part of  *)
(* the sources at hand; they are modelled from their documented interface. *)
(***************************************************************************)
EXTENDS Integers, Sequences, FiniteSets, TLC

\* ------------------------------------------------------------------ bounds
\* Largest n_episodes a run is started with.
MaxEpisodes == 2
\* Largest number of samples (rows of the feature matrix).
MaxN == 2
\* Longest list of requested genes, and largest nrows, of a plot.
MaxGenes == 3
MaxRows == 2

\* ------------------------------------------------------- domains of inputs
\* Feature values: a sample is a vector of D = 1 features.  16777217 = 2^24+1
\* is not representable in float32.
Features == {1, 16777217}
ClusterIds == {0, 1}
Scores == {0, 1}
ObsmKeys == {"X_pca", "X_embedding"}
BackendNames == {"kmeans", "unsupported"}
\* Free names of train_metric_learner that train_metric.py neither imports
\* nor defines.  They are looked up in the module namespace when the statement
\* using them runs: module_globals.bound is the set of those present there
\* (empty for the module as written, larger when a caller has put them there).
ModuleNames == {"NpDataset", "tqdm"}
\* What the free name preprocessed_data of train_metric_learner resolves to
\* in the module namespace at the time of the call: nothing (the module as
\* written binds no such name), the caller's store itself, or a copy of the
\* caller's store taken before the call.
PreprocessedBindings == {"unbound", "adata", "copy"}
MetricEpochs == {1, 2}
\* Columns of the expression table of the plotted data, and the names a
\* caller may request ("gx" is not a column).
DataColumns == {"g1", "g2", "g3"}
GeneNames == DataColumns \cup {"gx"}
\* Number of columns of adata.obsm[obsm_key]: 0 stands for a missing key.
EmbeddedDims == {0, 2, 3}

NoValue == << >>

\* ----------------------------------------------------------------- state
VARIABLES
    \* train_metric_learner: arguments and environment
    args,               \* n_episodes, n_metric_epochs, obsm_data_key, backend
    module_globals,     \* names bound in the namespace of train_metric.py
    adata0,             \* the caller's store as it was before the call
    adata,              \* the caller's store (mutated in place)
    \* train_metric_learner: control and locals
    pc, error,
    X, clustering_scores, cluster_record, communities, score,
    dataset, model, trainer, episode_idx,
    embedding, embedding_dataset, data_idx, X_embedding,
    \* observations of the collaborators
    cluster_features,   \* feature matrix read by the last clustering call
    calls,              \* number of calls made to each collaborator
    \* plot_gene_expression
    plot_pc, plot_error, genes, nrows, embedded_dim, net_genes, ncols,
    row_idx, col_idx, gene_index, drawn

train_vars == <<args, module_globals, adata0, adata, pc, error, X,
                clustering_scores, cluster_record, communities, score,
                dataset, model, trainer, episode_idx, embedding,
                embedding_dataset, data_idx, X_embedding, cluster_features,
                calls>>
plot_vars == <<plot_pc, plot_error, genes, nrows, embedded_dim, net_genes, ncols,
               row_idx, col_idx, gene_index, drawn>>
vars == <<train_vars, plot_vars>>

n_episodes == args.n_episodes
n_metric_epochs == args.n_metric_epochs
obsm_data_key == args.obsm_data_key
backend == args.backend

\* ---------------------------------------------------------------- helpers
Range(s) == {s[i] : i \in DOMAIN s}

\* Nearest float32 of a non-negative integer (24-bit significand, ties to
\* even): the element conversion of torch.Tensor(X).
RECURSIVE Ulp(_, _)
Ulp(v, u) == IF v < 16777216 * u THEN u ELSE Ulp(v, 2 * u)

Float32(v) ==
    LET u == Ulp(v, 1)
        q == v \div u
        r == v % u
    IN  IF 2 * r < u THEN q * u
        ELSE IF 2 * r > u THEN (q + 1) * u
        ELSE IF q % 2 = 0 THEN q * u
        ELSE (q + 1) * u

\* NpDataset.__init__: self.X = torch.Tensor(X)
NpDataset(M) == [i \in 1..Len(M) |-> [j \in 1..Len(M[i]) |-> Float32(M[i][j])]]

\* NpDataset.__len__
NpLen(ds) == Len(ds)

\* NpDataset.__getitem__ for a 0-based idx in range; out of range the tensor
\* indexing raises IndexError, which ends the iteration of line 51.
NpGetItem(ds, idx) == ds[idx + 1]

\* MetricEncoder forward pass: the code vector is a function of the current
\* parameters and of the input vector only; it is kept symbolic, as the
\* parameters followed by the input.
Forward(m, x) == <<m.params>> \o x

\* MetricDataset(store, obsm_data_key=key, obsm_cluster_key='metric_clusters')
MetricDataset(store, key) ==
    [X            |-> store.obsm[key],
     labels       |-> store.metric_clusters,
     num_clusters |-> Cardinality(Range(store.metric_clusters))]

\* Construction fails when the store has no labels under the cluster key or
\* no matrix under the data key, or when their lengths differ.
MetricDatasetFails(store, key) ==
    \/ store.obsm[key] = NoValue
    \/ store.metric_clusters = NoValue
    \/ Len(store.metric_clusters) # Len(store.obsm[key])

\* determine_cell_clusters(store, obsm_key=key, backend=be,
\*                         cluster_key='metric_clusters'):
\* the set of its possible outcomes.  An unsupported backend raises; otherwise
\* every sample of store.obsm[key] gets one cluster id, the assignment is
\* written to the store under the cluster key, and (communities, score) is
\* returned.
determine_cell_clusters(store, key, be) ==
    IF be # "kmeans" \/ store.obsm[key] = NoValue
    THEN {[raised |-> TRUE, store |-> store, communities |-> NoValue,
           score |-> 0, features |-> NoValue]}
    ELSE {[raised      |-> FALSE,
           store       |-> [store EXCEPT !.metric_clusters = labels],
           communities |-> labels,
           score       |-> s,
           features    |-> store.obsm[key]] :
            labels \in [1..Len(store.obsm[key]) -> ClusterIds], s \in Scores}

NoDataset == [X |-> NoValue, labels |-> NoValue, num_clusters |-> 0]
NoCalls == [cluster |-> 0, dataset |-> 0, encoder |-> 0, trainer |-> 0,
            train |-> 0, update |-> 0, embed |-> 0]

\* An exception leaves the function: its type and the statement that raised it.
NoError == [type |-> "", at |-> ""]

Raise(e) == pc' = "failed" /\ error' = [type |-> e, at |-> pc]

\* -------------------------------------------------- train_metric_learner
Matrices == UNION {[1..n -> {<<f>> : f \in Features}] : n \in 1..MaxN}

PlotIdle ==
    /\ plot_pc = "idle" /\ plot_error = "" /\ genes = << >> /\ nrows = 1
    /\ embedded_dim = 2
    /\ net_genes = << >> /\ ncols = 0 /\ row_idx = 0 /\ col_idx = 0
    /\ gene_index = 0 /\ drawn = << >>

\* The state in which train_metric_learner is called.
Init ==
    /\ args \in [n_episodes : 0..MaxEpisodes, n_metric_epochs : MetricEpochs,
                 obsm_data_key : ObsmKeys, backend : BackendNames]
    /\ module_globals \in [bound : SUBSET ModuleNames,
                           preprocessed_data : PreprocessedBindings]
    /\ \E M \in Matrices, labelled \in BOOLEAN :
          adata0 = [obsm |-> [k \in ObsmKeys |->
                                 IF k = args.obsm_data_key THEN M ELSE NoValue],
                    metric_clusters |->
                        IF labelled THEN [i \in 1..Len(M) |-> 0] ELSE NoValue,
                    uns |-> [clustering_scores |-> NoValue,
                             n_cluster_records |-> NoValue]]
    /\ adata = adata0
    /\ pc = "start" /\ error = NoError
    /\ X = NoValue /\ clustering_scores = << >> /\ cluster_record = << >>
    /\ communities = NoValue /\ score = 0
    /\ dataset = NoDataset
    /\ model = [params |-> 0, training |-> TRUE]
    /\ trainer = [dataset |-> NoDataset]
    /\ episode_idx = -1
    /\ embedding = << >> /\ embedding_dataset = NoValue /\ data_idx = 0
    /\ X_embedding = NoValue
    /\ cluster_features = NoValue
    /\ calls = NoCalls
    /\ PlotIdle

\* lines 17-19
Enter ==
    /\ pc = "start"
    /\ X' = adata.obsm[obsm_data_key]
    /\ clustering_scores' = << >>
    /\ cluster_record' = << >>
    /\ pc' = "initial_clusters"
    /\ UNCHANGED <<args, module_globals, adata0, adata, error, communities,
                   score, dataset, model, trainer, episode_idx, embedding,
                   embedding_dataset, data_idx, X_embedding, cluster_features,
                   calls, plot_vars>>

\* Faulty variant of InitialClusters: the configuration error is swallowed
\* and the run goes on.
InitialClusters_Swallow ==
    /\ pc = "initial_clusters"
    /\ \E r \in determine_cell_clusters(adata, obsm_data_key, backend) :
          /\ calls' = [calls EXCEPT !.cluster = @ + 1]
          /\ cluster_features' = r.features
          /\ adata' = r.store
          /\ communities' = r.communities
          /\ score' = r.score
          /\ clustering_scores' = Append(clustering_scores, r.score)
          /\ pc' = "dataset"
          /\ UNCHANGED error
    /\ UNCHANGED <<args, module_globals, adata0, X, cluster_record, dataset,
                   model, trainer, episode_idx, embedding, embedding_dataset,
                   data_idx, X_embedding, plot_vars>>

\* lines 21-25: the pre-loop clustering
InitialClusters ==
    /\ pc = "initial_clusters"
    /\ \E r \in determine_cell_clusters(adata, obsm_data_key, backend) :
          /\ calls' = [calls EXCEPT !.cluster = @ + 1]
          /\ cluster_features' = r.features
          /\ adata' = r.store
          /\ IF r.raised
             THEN /\ Raise("UnsupportedBackend")
                  /\ UNCHANGED <<communities, score, clustering_scores>>
             ELSE /\ communities' = r.communities
                  /\ score' = r.score
                  /\ clustering_scores' = Append(clustering_scores, r.score)
                  /\ pc' = "dataset"
                  /\ UNCHANGED error
    /\ UNCHANGED <<args, module_globals, adata0, X, cluster_record, dataset,
                   model, trainer, episode_idx, embedding, embedding_dataset,
                   data_idx, X_embedding, plot_vars>>

\* Faulty variant of BuildDataset: the initial cluster count is not recorded.
BuildDataset_NoRecord ==
    /\ pc = "dataset"
    /\ calls' = [calls EXCEPT !.dataset = @ + 1]
    /\ IF MetricDatasetFails(adata, obsm_data_key)
       THEN /\ Raise("InvalidData")
            /\ UNCHANGED <<dataset, cluster_record>>
       ELSE /\ dataset' = MetricDataset(adata, obsm_data_key)
            /\ pc' = "model"
            /\ UNCHANGED <<error, cluster_record>>
    /\ UNCHANGED <<args, module_globals, adata0, adata, X, clustering_scores,
                   communities, score, model, trainer, episode_idx, embedding,
                   embedding_dataset, data_idx, X_embedding, cluster_features,
                   plot_vars>>

\* lines 27-29
BuildDataset ==
    /\ pc = "dataset"
    /\ calls' = [calls EXCEPT !.dataset = @ + 1]
    /\ IF MetricDatasetFails(adata, obsm_data_key)
       THEN /\ Raise("InvalidData")
            /\ UNCHANGED <<dataset, cluster_record>>
       ELSE /\ dataset' = MetricDataset(adata, obsm_data_key)
            /\ cluster_record' = Append(cluster_record, dataset'.num_clusters)
            /\ pc' = "model"
            /\ UNCHANGED error
    /\ UNCHANGED <<args, module_globals, adata0, adata, X, clustering_scores,
                   communities, score, model, trainer, episode_idx, embedding,
                   embedding_dataset, data_idx, X_embedding, cluster_features,
                   plot_vars>>

\* lines 31-39: loss, MetricEncoder(...).cuda(), MetricTrainer(dataset, model,
\* train_loss).  Moving the encoder to the GPU fails on a host without one.
BuildTrainer ==
    /\ pc = "model"
    /\ calls' = [calls EXCEPT !.encoder = @ + 1, !.trainer = @ + 1]
    /\ model' = [params |-> 0, training |-> TRUE]
    /\ trainer' = [dataset |-> dataset]
    /\ pc' = "loop"
    /\ UNCHANGED <<args, module_globals, adata0, adata, error, X,
                   clustering_scores, cluster_record, communities, score,
                   dataset, episode_idx, embedding, embedding_dataset,
                   data_idx, X_embedding, cluster_features, plot_vars>>

BuildTrainerNoGpu ==
    /\ pc = "model"
    /\ calls' = [calls EXCEPT !.encoder = @ + 1]
    /\ Raise("NoCuda")
    /\ UNCHANGED <<args, module_globals, adata0, adata, X, clustering_scores,
                   cluster_record, communities, score, dataset, model, trainer,
                   episode_idx, embedding, embedding_dataset, data_idx,
                   X_embedding, cluster_features, plot_vars>>

\* Faulty variant of LoopHead: the loop also ends once the quality score of
\* the last clustering has dropped below the one before it.
LoopHead_EarlyStop ==
    /\ pc = "loop"
    /\ LET k == Len(clustering_scores)
           dropped == k >= 2 /\ clustering_scores[k] < clustering_scores[k - 1]
       IN  IF episode_idx + 1 < n_episodes /\ ~dropped
           THEN episode_idx' = episode_idx + 1 /\ pc' = "train"
           ELSE episode_idx' = episode_idx /\ pc' = "history"
    /\ UNCHANGED <<args, module_globals, adata0, adata, error, X,
                   clustering_scores, cluster_record, communities, score,
                   dataset, model, trainer, embedding, embedding_dataset,
                   data_idx, X_embedding, cluster_features, calls, plot_vars>>

\* line 41: for episode_idx in range(n_episodes); lines 70-72 follow the loop
LoopHead ==
    /\ pc = "loop"
    /\ IF episode_idx + 1 < n_episodes
       THEN episode_idx' = episode_idx + 1 /\ pc' = "train"
       ELSE episode_idx' = episode_idx /\ pc' = "history"
    /\ UNCHANGED <<args, module_globals, adata0, adata, error, X,
                   clustering_scores, cluster_record, communities, score,
                   dataset, model, trainer, embedding, embedding_dataset,
                   data_idx, X_embedding, cluster_features, calls, plot_vars>>

\* lines 42-43: trainer.train(n_metric_epochs, save_path) optimises the
\* encoder's parameters in place on trainer.dataset and writes a checkpoint.
Train ==
    /\ pc = "train"
    /\ calls' = [calls EXCEPT !.train = @ + 1]
    /\ model' = [model EXCEPT !.params = @ + n_metric_epochs]
    /\ pc' = "embed"
    /\ UNCHANGED <<args, module_globals, adata0, adata, error, X,
                   clustering_scores, cluster_record, communities, score,
                   dataset, trainer, episode_idx, embedding, embedding_dataset,
                   data_idx, X_embedding, cluster_features, plot_vars>>

\* line 43 when the checkpoint cannot be written
TrainFails ==
    /\ pc = "train"
    /\ calls' = [calls EXCEPT !.train = @ + 1]
    /\ Raise("CheckpointWrite")
    /\ UNCHANGED <<args, module_globals, adata0, adata, X, clustering_scores,
                   cluster_record, communities, score, dataset, model, trainer,
                   episode_idx, embedding, embedding_dataset, data_idx,
                   X_embedding, cluster_features, plot_vars>>

\* Faulty variant of EmbedInit: the matrix is read from the store again
\* instead of taken from the local X of line 17.
EmbedInit_RereadsStore ==
    /\ pc = "embed"
    /\ embedding' = << >>
    /\ IF "NpDataset" \in module_globals.bound
       THEN /\ embedding_dataset' = NpDataset(adata.obsm[obsm_data_key])
            /\ pc' = "eval"
            /\ UNCHANGED error
       ELSE /\ Raise("NameError")
            /\ UNCHANGED embedding_dataset
    /\ UNCHANGED <<args, module_globals, adata0, adata, X, clustering_scores,
                   cluster_record, communities, score, dataset, model, trainer,
                   episode_idx, data_idx, X_embedding, cluster_features, calls,
                   plot_vars>>

\* lines 45-47: embedding = []; embedding_dataset = NpDataset(X).
\* NpDataset is a free name of the function, looked up in the module namespace.
EmbedInit ==
    /\ pc = "embed"
    /\ embedding' = << >>
    /\ IF "NpDataset" \in module_globals.bound
       THEN /\ embedding_dataset' = NpDataset(X)
            /\ pc' = "eval"
            /\ UNCHANGED error
       ELSE /\ Raise("NameError")
            /\ UNCHANGED embedding_dataset
    /\ UNCHANGED <<args, module_globals, adata0, adata, X, clustering_scores,
                   cluster_record, communities, score, dataset, model, trainer,
                   episode_idx, data_idx, X_embedding, cluster_features, calls,
                   plot_vars>>

\* lines 49-51: model.eval(); with torch.no_grad(); iter(tqdm(embedding_dataset)).
\* tqdm is a free name of the function as well.
EvalMode ==
    /\ pc = "eval"
    /\ model' = [model EXCEPT !.training = FALSE]
    /\ IF "tqdm" \in module_globals.bound
       THEN /\ data_idx' = 0
            /\ calls' = [calls EXCEPT !.embed = @ + 1]
            /\ pc' = "embed_loop"
            /\ UNCHANGED error
       ELSE /\ Raise("NameError")
            /\ UNCHANGED <<data_idx, calls>>
    /\ UNCHANGED <<args, module_globals, adata0, adata, X, clustering_scores,
                   cluster_record, communities, score, dataset, trainer,
                   episode_idx, embedding, embedding_dataset, X_embedding,
                   cluster_features, plot_vars>>

\* lines 51-53: one round of the loop over embedding_dataset.  NpDataset has
\* no __iter__: the iteration calls __getitem__(0), __getitem__(1), ... until
\* it raises IndexError.
EmbedStep ==
    /\ pc = "embed_loop"
    /\ IF data_idx < NpLen(embedding_dataset)
       THEN /\ embedding' = Append(embedding,
                                   Forward(model, NpGetItem(embedding_dataset, data_idx)))
            /\ data_idx' = data_idx + 1
            /\ pc' = "embed_loop"
       ELSE /\ pc' = "store_embedding"
            /\ UNCHANGED <<embedding, data_idx>>
    /\ UNCHANGED <<args, module_globals, adata0, adata, error, X,
                   clustering_scores, cluster_record, communities, score,
                   dataset, model, trainer, episode_idx, embedding_dataset,
                   X_embedding, cluster_features, calls, plot_vars>>

\* lines 54-56: X_embedding = np.array(embedding); adata.obsm['X_embedding'] = it
StoreEmbedding ==
    /\ pc = "store_embedding"
    /\ X_embedding' = embedding
    /\ adata' = [adata EXCEPT !.obsm["X_embedding"] = embedding]
    /\ pc' = "new_clusters"
    /\ UNCHANGED <<args, module_globals, adata0, error, X, clustering_scores,
                   cluster_record, communities, score, dataset, model, trainer,
                   episode_idx, embedding, embedding_dataset, data_idx,
                   cluster_features, calls, plot_vars>>

\* Faulty variant of NewClusters: the scores are written to the caller's
\* store as soon as they are appended.
NewClusters_StoresScores ==
    /\ pc = "new_clusters"
    /\ \E r \in determine_cell_clusters(adata, obsm_data_key, backend) :
          /\ calls' = [calls EXCEPT !.cluster = @ + 1]
          /\ cluster_features' = r.features
          /\ IF r.raised
             THEN /\ Raise("UnsupportedBackend")
                  /\ adata' = r.store
                  /\ UNCHANGED <<communities, score, clustering_scores>>
             ELSE /\ communities' = r.communities
                  /\ score' = r.score
                  /\ clustering_scores' = Append(clustering_scores, r.score)
                  /\ adata' = [r.store EXCEPT
                                 !.uns.clustering_scores = clustering_scores']
                  /\ pc' = "update"
                  /\ UNCHANGED error
    /\ UNCHANGED <<args, module_globals, adata0, X, cluster_record, dataset,
                   model, trainer, episode_idx, embedding, embedding_dataset,
                   data_idx, X_embedding, plot_vars>>

\* lines 58-62: the clustering call of the episode, with obsm_key=obsm_data_key
NewClusters ==
    /\ pc = "new_clusters"
    /\ \E r \in determine_cell_clusters(adata, obsm_data_key, backend) :
          /\ calls' = [calls EXCEPT !.cluster = @ + 1]
          /\ cluster_features' = r.features
          /\ adata' = r.store
          /\ IF r.raised
             THEN /\ Raise("UnsupportedBackend")
                  /\ UNCHANGED <<communities, score, clustering_scores>>
             ELSE /\ communities' = r.communities
                  /\ score' = r.score
                  /\ clustering_scores' = Append(clustering_scores, r.score)
                  /\ pc' = "update"
                  /\ UNCHANGED error
    /\ UNCHANGED <<args, module_globals, adata0, X, cluster_record, dataset,
                   model, trainer, episode_idx, embedding, embedding_dataset,
                   data_idx, X_embedding, plot_vars>>

\* The object the free name preprocessed_data denotes when it is bound.
preprocessed_data ==
    IF module_globals.preprocessed_data = "adata" THEN adata ELSE adata0

\* Faulty variant of UpdateDataset: instead of trainer.update_dataset a new
\* encoder and a new trainer are built for the new dataset.
UpdateDataset_NewTrainer ==
    /\ pc = "update"
    /\ IF module_globals.preprocessed_data = "unbound"
       THEN /\ Raise("NameError")
            /\ UNCHANGED <<dataset, cluster_record, trainer, calls, model>>
       ELSE IF MetricDatasetFails(preprocessed_data, obsm_data_key)
       THEN /\ Raise("InvalidData")
            /\ calls' = [calls EXCEPT !.dataset = @ + 1]
            /\ UNCHANGED <<dataset, cluster_record, trainer, model>>
       ELSE /\ dataset' = MetricDataset(preprocessed_data, obsm_data_key)
            /\ cluster_record' = Append(cluster_record, dataset'.num_clusters)
            /\ model' = [params |-> 0, training |-> TRUE]
            /\ trainer' = [dataset |-> dataset']
            /\ calls' = [calls EXCEPT !.dataset = @ + 1, !.update = @ + 1,
                                      !.encoder = @ + 1, !.trainer = @ + 1]
            /\ pc' = "loop"
            /\ UNCHANGED error
    /\ UNCHANGED <<args, module_globals, adata0, adata, X, clustering_scores,
                   communities, score, episode_idx, embedding,
                   embedding_dataset, data_idx, X_embedding, cluster_features,
                   plot_vars>>

\* lines 64-68: dataset = MetricDataset(preprocessed_data, ...);
\* cluster_record.append(dataset.num_clusters); trainer.update_dataset(dataset).
\* update_dataset swaps the trainer's dataset and touches nothing else.
UpdateDataset ==
    /\ pc = "update"
    /\ IF module_globals.preprocessed_data = "unbound"
       THEN /\ Raise("NameError")
            /\ UNCHANGED <<dataset, cluster_record, trainer, calls>>
       ELSE IF MetricDatasetFails(preprocessed_data, obsm_data_key)
       THEN /\ Raise("InvalidData")
            /\ calls' = [calls EXCEPT !.dataset = @ + 1]
            /\ UNCHANGED <<dataset, cluster_record, trainer>>
       ELSE /\ dataset' = MetricDataset(preprocessed_data, obsm_data_key)
            /\ cluster_record' = Append(cluster_record, dataset'.num_clusters)
            /\ trainer' = [trainer EXCEPT !.dataset = dataset']
            /\ calls' = [calls EXCEPT !.dataset = @ + 1, !.update = @ + 1]
            /\ pc' = "loop"
            /\ UNCHANGED error
    /\ UNCHANGED <<args, module_globals, adata0, adata, X, clustering_scores,
                   communities, score, model, episode_idx, embedding,
                   embedding_dataset, data_idx, X_embedding, cluster_features,
                   plot_vars>>

\* lines 70-72: the history is written to the caller's store
StoreHistory ==
    /\ pc = "history"
    /\ adata' = [adata EXCEPT !.uns = [clustering_scores |-> clustering_scores,
                                       n_cluster_records |-> cluster_record]]
    /\ pc' = "done"
    /\ UNCHANGED <<args, module_globals, adata0, error, X, clustering_scores,
                   cluster_record, communities, score, dataset, model, trainer,
                   episode_idx, embedding, embedding_dataset, data_idx,
                   X_embedding, cluster_features, calls, plot_vars>>

Next ==
    \/ Enter \/ InitialClusters \/ BuildDataset
    \/ BuildTrainer \/ BuildTrainerNoGpu
    \/ LoopHead \/ Train \/ TrainFails
    \/ EmbedInit \/ EvalMode \/ EmbedStep \/ StoreEmbedding
    \/ NewClusters \/ UpdateDataset \/ StoreHistory

Spec == Init /\ [][Next]_vars

\* The function is run by one thread that executes its statements one after
\* the other: a statement that can be executed is executed.
FairSpec == Spec /\ WF_vars(Next)

\* -------------------------------------------------- plot_gene_expression
TrainIdle ==
    /\ args = [n_episodes |-> 0, n_metric_epochs |-> 1,
               obsm_data_key |-> "X_pca", backend |-> "kmeans"]
    /\ module_globals = [bound |-> {}, preprocessed_data |-> "unbound"]
    /\ adata0 = [obsm |-> [k \in ObsmKeys |-> NoValue],
                 metric_clusters |-> NoValue,
                 uns |-> [clustering_scores |-> NoValue,
                          n_cluster_records |-> NoValue]]
    /\ adata = adata0
    /\ pc = "idle" /\ error = NoError
    /\ X = NoValue /\ clustering_scores = << >> /\ cluster_record = << >>
    /\ communities = NoValue /\ score = 0
    /\ dataset = NoDataset
    /\ model = [params |-> 0, training |-> TRUE]
    /\ trainer = [dataset |-> NoDataset]
    /\ episode_idx = -1
    /\ embedding = << >> /\ embedding_dataset = NoValue /\ data_idx = 0
    /\ X_embedding = NoValue
    /\ cluster_features = NoValue
    /\ calls = NoCalls

\* list(S) of a Python set S: its elements once each, in some order
ListOfSet(S) == {s \in [1..Cardinality(S) -> S] : Range(s) = S}

\* math.ceil(a / b) for a >= 0, b >= 1
Ceil(a, b) == (a + b - 1) \div b

PlotRaise(e) == plot_pc' = "failed" /\ plot_error' = e

\* The state in which plot_gene_expression(adata, genes, nrows) is called.
PlotInit ==
    /\ TrainIdle
    /\ plot_pc = "start" /\ plot_error = ""
    /\ genes \in UNION {[1..n -> GeneNames] : n \in 0..MaxGenes}
    /\ nrows \in 1..MaxRows
    /\ embedded_dim \in EmbeddedDims
    /\ net_genes = << >> /\ ncols = 0 /\ row_idx = 0 /\ col_idx = 0
    /\ gene_index = 0 /\ drawn = << >>

\* lines 44-59: the embedding is looked up and must have two columns
PlotEnter ==
    /\ plot_pc = "start"
    /\ IF embedded_dim = 0 THEN PlotRaise("Exception")
       ELSE IF embedded_dim # 2 THEN PlotRaise("AssertionError")
       ELSE plot_pc' = "filter" /\ UNCHANGED plot_error
    /\ UNCHANGED <<train_vars, genes, nrows, embedded_dim, net_genes, ncols,
                   row_idx, col_idx, gene_index, drawn>>

\* lines 61-70: net_genes, ncols, the grid, gene_index = 0
PlotFilter ==
    /\ plot_pc = "filter"
    /\ LET excluded_genes == Range(genes) \ DataColumns
       IN  net_genes' \in ListOfSet(Range(genes) \ excluded_genes)
    /\ ncols' = Ceil(Len(net_genes'), nrows)
    /\ gene_index' = 0
    /\ row_idx' = 0 /\ col_idx' = 0
    /\ plot_pc' = "grid"
    /\ UNCHANGED <<train_vars, plot_error, genes, nrows, embedded_dim, drawn>>

\* line 68 with ncols = 0: matplotlib releases that validate the grid shape
\* raise ValueError from GridSpec; older ones accept it.
PlotGridSpecRejects ==
    /\ plot_pc = "filter"
    /\ Range(genes) \cap DataColumns = {}
    /\ PlotRaise("ValueError")
    /\ UNCHANGED <<train_vars, genes, nrows, embedded_dim, net_genes, ncols,
                   row_idx, col_idx, gene_index, drawn>>

\* lines 72-89: one cell of the grid, row_idx < nrows and col_idx < ncols
PlotCell ==
    /\ plot_pc = "grid"
    /\ row_idx < nrows /\ col_idx < ncols
    /\ IF gene_index < Len(net_genes)
       THEN /\ drawn' = Append(drawn, net_genes[gene_index + 1])
            /\ gene_index' = gene_index + 1
            /\ col_idx' = col_idx + 1
            /\ UNCHANGED <<plot_pc, plot_error>>
       ELSE /\ PlotRaise("IndexError")
            /\ UNCHANGED <<drawn, gene_index, col_idx>>
    /\ UNCHANGED <<train_vars, genes, nrows, embedded_dim, net_genes, ncols,
                   row_idx>>

\* lines 71-72: the inner loop is exhausted, the outer loop takes the next row
PlotNextRow ==
    /\ plot_pc = "grid"
    /\ row_idx < nrows /\ col_idx >= ncols
    /\ row_idx' = row_idx + 1
    /\ col_idx' = 0
    /\ UNCHANGED <<train_vars, plot_pc, plot_error, genes, nrows, embedded_dim,
                   net_genes, ncols, gene_index, drawn>>

\* line 90
PlotShow ==
    /\ plot_pc = "grid"
    /\ row_idx >= nrows
    /\ plot_pc' = "done"
    /\ UNCHANGED <<train_vars, plot_error, genes, nrows, embedded_dim,
                   net_genes, ncols, row_idx, col_idx, gene_index, drawn>>

PlotNext ==
    \/ PlotEnter \/ PlotFilter \/ PlotGridSpecRejects
    \/ PlotCell \/ PlotNextRow \/ PlotShow

PlotSpec == PlotInit /\ [][PlotNext]_vars

\* ------------------------------------------------------------ properties
Terminated == pc \in {"done", "failed"}
\* The feature matrix the run was started on.
X0 == adata0.obsm[obsm_data_key]

\* C1: when train_metric_learner finishes, the two history sequences it has
\* stored each have exactly n_episodes + 1 entries.
C1_HistoryLength ==
    pc = "done" =>
        /\ Len(adata.uns.clustering_scores) = n_episodes + 1
        /\ Len(adata.uns.n_cluster_records) = n_episodes + 1

\* A finished run of at least one episode.
C1_Witness ==
    /\ pc = "done" /\ n_episodes >= 1
    /\ Len(adata.uns.clustering_scores) = n_episodes + 1
    /\ Len(adata.uns.n_cluster_records) = n_episodes + 1

C3_UnsupportedBackendFailsFirst ==
    backend # "kmeans" =>
        /\ calls.train = 0 /\ calls.trainer = 0
        /\ pc \in {"start", "initial_clusters", "failed"}
        /\ pc = "failed" => (error.type = "UnsupportedBackend" /\ calls.cluster = 1)

\* A run that has failed on an unsupported backend name.
C3_Witness ==
    /\ backend # "kmeans" /\ pc = "failed" /\ error.type = "UnsupportedBackend"
    /\ calls.cluster = 1 /\ calls.train = 0

\* C4 as stated: a failed run leaves the caller's store as it was before the
\* call: embedding key, cluster-assignment key and both history keys.
C4_FailedRunLeavesStore ==
    pc = "failed" => adata = adata0

\* C4 as amended: a failed run stores no history: both history keys hold the
\* values they had before the call.
C4_FailedRunStoresNoHistory ==
    pc = "failed" => adata.uns = adata0.uns

\* A run that failed after it had overwritten the cluster-assignment key and
\* the embedding key.
C4_Witness ==
    /\ pc = "failed"
    /\ adata.metric_clusters # adata0.metric_clusters
    /\ adata.obsm["X_embedding"] # adata0.obsm["X_embedding"]
    /\ adata.uns = adata0.uns

\* C5: the encoder and the trainer are created once, before the loop, and
\* only Trainer.train changes the encoder's parameters: every other step of
\* the function, update_dataset included, leaves them as they are.
C5_WarmStart ==
    [][/\ calls'.encoder <= 1 /\ calls'.trainer <= 1
       /\ (pc' \in {"loop", "train", "embed", "eval", "embed_loop",
                    "store_embedding", "new_clusters", "update"})
             => (calls'.encoder = 1 /\ calls'.trainer = 1)
       /\ (calls.encoder = 1 /\ pc # "train")
             => model'.params = model.params]_vars

\* The second episode is about to train, on the parameters the first left.
C5_Witness ==
    /\ pc = "train" /\ episode_idx = 1
    /\ calls.update = 1 /\ model.params = n_metric_epochs

\* C6: every episode produces its embedding matrix (step 2 does not fail),
\* and the matrix an episode has just stored has one row per sample of the
\* feature matrix the run was started on, row i being the encoding, under the
\* current parameters, of sample i (as a float32 tensor).
C6_EpisodeEmbedsOriginalRows ==
    /\ ~(pc = "failed" /\ error.at \in {"embed", "eval", "embed_loop",
                                         "store_embedding"})
    /\ pc = "new_clusters" =>
          /\ X = X0
          /\ adata.obsm["X_embedding"] = X_embedding
          /\ Len(X_embedding) = Len(X0)
          /\ \A i \in 1..Len(X0) :
                X_embedding[i] =
                    Forward(model, [j \in 1..Len(X0[i]) |-> Float32(X0[i][j])])

\* C7: the features read by the clustering call of an episode are the
\* embedding matrix the episode has just produced.
C7_ReclustersOnEmbedding ==
    pc = "update" => cluster_features = X_embedding

\* C8: step 4 of every episode builds its dataset (it does not fail), and
\* whenever Trainer.train is about to run, the trainer's dataset holds the
\* original feature matrix and the latest cluster assignment (the pre-loop one
\* in episode 0, the one of episode k in episode k+1).
C8_TrainsOnLatestAssignment ==
    /\ ~(pc = "failed" /\ error.at = "update")
    /\ pc = "train" =>
          /\ trainer.dataset.X = X0
          /\ trainer.dataset.labels = communities

\* C9: the run terminates; an episode starts only when all the steps of the
\* episodes before it have been done once each; and a run that finishes has
\* done exactly n_episodes episodes, whatever the scores and cluster counts.
C9_RunsAllEpisodes ==
    /\ <>Terminated
    /\ [](pc = "train" =>
            /\ calls.train = episode_idx /\ calls.embed = episode_idx
            /\ calls.update = episode_idx /\ calls.cluster = episode_idx + 1)
    /\ [](pc = "done" =>
            /\ calls.train = n_episodes /\ calls.embed = n_episodes
            /\ calls.update = n_episodes /\ calls.cluster = n_episodes + 1
            /\ episode_idx = n_episodes - 1)

\* A finished run of two episodes in which the quality score dropped after
\* the first episode and the first episode found a single cluster.
C9_Witness ==
    /\ pc = "done" /\ n_episodes = 2 /\ calls.train = 2
    /\ clustering_scores[2] < clustering_scores[1]
    /\ cluster_record[2] = 1

\* C10: plot_gene_expression never reads net_genes out of range, and a plot
\* that is shown has drawn each requested gene that is a column exactly once.
C10_GridStaysInRange ==
    /\ plot_error # "IndexError"
    /\ plot_pc = "done" =>
          /\ Len(drawn) = Cardinality(Range(genes) \cap DataColumns)
          /\ Range(drawn) = Range(genes) \cap DataColumns
====
